---------------------------- MODULE Spec2Model ----------------------------
(***************************************************************************)
(* A model of the gait-analysis tools: the two Kalman filters of           *)
(* SensorFusion.py (kalman_filter_6dof, kalman_filter_velocity) and the    *)
(* two analyzers (HarmonicRatio.py, RecursionAnalysis.py).                 *)
(*                                                                         *)
(* Numbers.  The code computes in float64.  TLC has 32-bit integers only,  *)
(* so a float is modelled as a decimal fixed-point number: the integer n   *)
(* stands for n / SCALE, and every product, quotient and library function  *)
(* rounds to the nearest representable value, as a float operation does.   *)
(* The inputs are chosen so that every value stays inside the range of     *)
(* the representation (|v| < 1000).  Python numbers are assumed for the    *)
(* scalar inputs (a float division by zero raises ZeroDivisionError).      *)
(***************************************************************************)
EXTENDS Integers, Sequences, FiniteSets, TLC

SCALE == 1000 * 1000

\* numpy's pi, in fixed point
PI == 3141593

Fx(n) == n * SCALE

Abs(a) == IF a < 0 THEN -a ELSE a

Sgn(a) == IF a < 0 THEN -1 ELSE IF a = 0 THEN 0 ELSE 1

\* The exact product of two fixed-point numbers as <<hi, lo>>:
\* a * b = hi * SCALE + lo with 0 <= lo < SCALE, computed on 32-bit parts.
ExactMul(a, b) ==
  LET ah == a \div 1000
      al == a % 1000
      bh == b \div 1000
      bl == b % 1000
      mid == ah * bl + al * bh
      rest == (mid % 1000) * 1000 + al * bl
  IN <<ah * bh + (mid \div 1000) + (rest \div SCALE), rest % SCALE>>

\* a * b, rounded to the nearest fixed-point number
FMul(a, b) ==
  LET p == ExactMul(a, b)
  IN p[1] + (IF 2 * p[2] >= SCALE THEN 1 ELSE 0)

\* the next decimal digits of q + r / b, digit by digit
RECURSIVE DivDigits(_, _, _, _)
DivDigits(q, r, b, k) ==
  IF k = 0
    THEN q + (IF 2 * r >= b THEN 1 ELSE 0)
    ELSE DivDigits(q * 10 + ((r * 10) \div b), (r * 10) % b, b, k - 1)

\* a / b for b # 0, rounded to the nearest fixed-point number
FDiv(a, b) ==
  Sgn(a) * Sgn(b) * DivDigits(Abs(a) \div Abs(b), Abs(a) % Abs(b), Abs(b), 6)

\* a / n for an integer count n > 0, rounded
FDivInt(a, n) == (2 * a + n) \div (2 * n)

RECURSIVE Newton(_, _, _)
Newton(v, s, k) ==
  LET t == (s + FDiv(v, s)) \div 2
  IN IF k = 0 \/ Abs(t - s) <= 1 THEN t ELSE Newton(v, t, k - 1)

\* np.sqrt on v >= 0
Sqrt(v) == IF v = 0 THEN 0 ELSE Newton(v, IF v > SCALE THEN v ELSE SCALE, 40)

\* the Taylor series of sin and cos: term k+2 is -term k * x^2 / ((k+1)(k+2))
RECURSIVE Series(_, _, _, _)
Series(x2, term, k, n) ==
  IF n = 0 \/ term = 0 THEN 0
  ELSE term + Series(x2, -FDivInt(FMul(term, x2), (k + 1) * (k + 2)), k + 2, n - 1)

Sin(a) == Series(FMul(a, a), a, 1, 12)

Cos(a) == Series(FMul(a, a), SCALE, 0, 12)

Tan(a) == FDiv(Sin(a), Cos(a))

\* one halving of the argument: atan(t) = 2 atan(t / (1 + sqrt(1 + t^2)))
HalfArg(t) == FDiv(t, SCALE + Sqrt(SCALE + FMul(t, t)))

\* u - u^3/3 + u^5/5 - u^7/7 + u^9/9, given u and u^2
AtanSeries(u, u2) ==
  LET u3 == FMul(u, u2)
      u5 == FMul(u3, u2)
      u7 == FMul(u5, u2)
      u9 == FMul(u7, u2)
  IN u - FDivInt(u3, 3) + FDivInt(u5, 5) - FDivInt(u7, 7) + FDivInt(u9, 9)

AtanSmall(u) == AtanSeries(u, FMul(u, u))

\* atan of 0 <= t <= 1: two halvings of the argument, then the series
AtanUnit(t) == 4 * AtanSmall(HalfArg(HalfArg(t)))

\* atan of t >= 0
AtanPos(t) ==
  IF t <= SCALE THEN AtanUnit(t) ELSE (PI \div 2) - AtanUnit(FDiv(SCALE, t))

\* np.arctan2(y, x)
Arctan2(y, x) ==
  IF x = 0 THEN Sgn(y) * (PI \div 2)
  ELSE IF x > 0 THEN Sgn(y) * AtanPos(FDiv(Abs(y), x))
  ELSE Sgn(y) * (PI - AtanPos(FDiv(Abs(y), -x))) + (IF y = 0 THEN PI ELSE 0)

\* np.radians and np.degrees
Radians(d) == FDivInt(FMul(d, PI), 180)

Degrees(r) == FDiv(r * 180, PI)


(***************************************************************************)
(* Matrices are sequences of rows; a vector is a one-column matrix, as the *)
(* code's np.transpose(np.array([[...]])).                                  *)
(***************************************************************************)
Rows(M) == Len(M)

Cols(M) == Len(M[1])

\* the array with the entries f[1], ..., f[n], evaluated once
Arr(f) == f \o <<>>

RECURSIVE DotTo(_, _, _, _, _)
DotTo(M, N, i, j, k) ==
  IF k = 0 THEN 0 ELSE DotTo(M, N, i, j, k - 1) + FMul(M[i][k], N[k][j])

\* M.dot(N)
Dot(M, N) ==
  Arr([i \in 1..Rows(M) |-> Arr([j \in 1..Cols(N) |-> DotTo(M, N, i, j, Cols(M))])])

MatAdd(M, N) == Arr([i \in 1..Rows(M) |-> Arr([j \in 1..Cols(M) |-> M[i][j] + N[i][j]])])

MatSub(M, N) == Arr([i \in 1..Rows(M) |-> Arr([j \in 1..Cols(M) |-> M[i][j] - N[i][j]])])

\* np.transpose
Transpose(M) == Arr([j \in 1..Cols(M) |-> Arr([i \in 1..Rows(M) |-> M[i][j]])])

\* np.eye(n)
Eye(n) == Arr([i \in 1..n |-> Arr([j \in 1..n |-> IF i = j THEN SCALE ELSE 0])])

\* an array literal times a coefficient
Times(M, c) == Arr([i \in 1..Rows(M) |-> Arr([j \in 1..Cols(M) |-> FMul(M[i][j], c)])])

Zeros(n, m) == Arr([i \in 1..n |-> Arr([j \in 1..m |-> 0])])

\* The LU factorisation with partial pivoting that np.linalg.inv runs on a 2x2
\* matrix: the rows in pivot order (r1, r2), the multiplier l and the second pivot.
Lu2(S) ==
  LET swap == Abs(S[2][1]) > Abs(S[1][1])
      r1 == IF swap THEN S[2] ELSE S[1]
      r2 == IF swap THEN S[1] ELSE S[2]
      l == IF r1[1] = 0 THEN 0 ELSE FDiv(r2[1], r1[1])
  IN [swap |-> swap, r1 |-> r1, l |-> l, u22 |-> r2[2] - FMul(l, r1[2])]

\* a zero pivot: the matrix is singular
IsSingular(S) == Lu2(S).r1[1] = 0 \/ Lu2(S).u22 = 0

\* the inverse of a non-singular 2x2 matrix from its factorisation f
InvLu(f, a, b, i22) ==
  LET i21 == -FMul(f.l, i22)
      i12 == -FDiv(FMul(b, i22), a)
      i11 == FDiv(SCALE - FMul(b, i21), a)
  IN IF f.swap THEN << <<i12, i11>>, <<i22, i21>> >>
     ELSE << <<i11, i12>>, <<i21, i22>> >>

InvOf(f) == InvLu(f, f.r1[1], f.r1[2], FDiv(SCALE, f.u22))

Inv2(S) == InvOf(Lu2(S))

\* a variant of np.linalg.inv that answers a singular matrix with a zero inverse
LinalgInvZero(S) ==
  IF IsSingular(S) THEN [status |-> "ok", value |-> Zeros(2, 2)]
  ELSE [status |-> "ok", value |-> Inv2(S)]

\* np.linalg.inv: the inverse, or LinAlgError on a singular matrix
LinalgInv(S) ==
  IF IsSingular(S) THEN [status |-> "LinAlgError", value |-> <<>>]
  ELSE [status |-> "ok", value |-> Inv2(S)]

RECURSIVE SumWhole(_, _)
SumWhole(s, k) == IF k = 0 THEN 0 ELSE SumWhole(s, k - 1) + (s[k] \div SCALE)

RECURSIVE SumFrac(_, _)
SumFrac(s, k) == IF k = 0 THEN 0 ELSE SumFrac(s, k - 1) + (s[k] % SCALE)

\* np.mean of a non-empty list: the sum, kept in two parts, over the count
Mean(s) ==
  LET n == Len(s)
      w == SumWhole(s, n)
      f == SumFrac(s, n)
  IN (w \div n) * SCALE + FDivInt((w % n) * SCALE + f, n)

\* a variant of the push that evicts the newest entry instead of the oldest
AppendPopNewest(hist, v) == <<hist[1], v>>

\* list.append(v) followed by list.pop(0)
AppendPop(hist, v) == Tail(Append(hist, v))

(***************************************************************************)
(* kalman_filter_6dof                                                      *)
(***************************************************************************)
\* the coefficient .000001 of Q
Q6_COEFF == 1

\* the coefficient 0.001 of R
R6_COEFF == 1000

\* __init__: self.Q
InitQ6dof == Times(Eye(4), Q6_COEFF)

\* __init__: self.R
InitR6dof == Times(<< <<Fx(1), 0>>, <<0, Fx(10)>> >>, R6_COEFF)

\* __init__: self.C
C6dof == << <<Fx(1), 0, 0, 0>>, <<0, 0, Fx(1), 0>> >>

\* a variant of reset() that leaves the state vector of a used filter as it is
Reset6dofKeepsX(self) ==
  [self EXCEPT !.x = IF self.x = <<>> THEN Zeros(4, 1) ELSE self.x,
               !.P = Eye(4),
               !.acc_x = <<0, 0>>,
               !.acc_y = <<0, 0>>,
               !.acc_z = <<0, 0>>]

\* reset(): the fields it assigns; Q and R are not among them
Reset6dof(self) ==
  [self EXCEPT !.x = Zeros(4, 1),
               !.P = Eye(4),
               !.acc_x = <<0, 0>>,
               !.acc_y = <<0, 0>>,
               !.acc_z = <<0, 0>>]

\* a variant of the prediction without the transposed A: P = A.P + Q
PredictPOneSided(A, P, Qm) == MatAdd(Dot(A, P), Qm)

\* P = A.P.A^T + Q
PredictP(A, P, Qm) == MatAdd(Dot(A, Dot(P, Transpose(A))), Qm)

\* S = C.P.C^T + R
InnovationCov(C, P, Rm) == MatAdd(Dot(C, Dot(P, Transpose(C))), Rm)

\* K = P.C^T.S^-1
Gain(C, P, Sinv) == Dot(P, Dot(Transpose(C), Sinv))

\* P = (I - K.C).P
UpdateP(n, K, C, P) == Dot(MatSub(Eye(n), Dot(K, C)), P)

\* numpy broadcasting of a 1 x 1 array against an n x 1 array
Broadcast(M, n) == IF Rows(M) = n THEN M ELSE Arr([k \in 1..n |-> M[1]])

\* y_new = estimates - C.x_new
Innovation(estimates, C, x_pred) == MatSub(Broadcast(estimates, Rows(C)), Dot(C, x_pred))

\* The Kalman step both update() methods end with.  Each stage hands the values
\* it has computed to the next one; the result is the fields after the call
\* (self), how the call ended (status) and the local variables it computed (loc).
\* x_new and P = (I - K.C).P, with the gain K
UpdateCorrected(self, loc, x_pred, P_pred, y_new, K, C, n) ==
  [self |-> [self EXCEPT !.x = MatAdd(x_pred, Dot(K, y_new)),
                         !.P = UpdateP(n, K, C, P_pred)],
   status |-> "ok", value |-> <<>>, loc |-> loc]

\* K = P.C^T.inv(S): the error of np.linalg.inv leaves update() here
UpdateCorrect(self, loc, x_pred, P_pred, y_new, inv, C, n) ==
  IF inv.status # "ok"
    THEN [self |-> self, status |-> inv.status, value |-> <<>>, loc |-> loc]
    ELSE UpdateCorrected(self, loc, x_pred, P_pred, y_new,
                         Gain(C, P_pred, inv.value), C, n)

\* self.P = P_pred is assigned before S is inverted
UpdateInvert(self, loc, x_pred, P_pred, y_new, S, C, n) ==
  UpdateCorrect([self EXCEPT !.P = P_pred],
                loc @@ [x_pred |-> x_pred, Qused |-> self.Q, P_pred |-> P_pred,
                        y_new |-> y_new, S |-> S],
                x_pred, P_pred, y_new, LinalgInv(S), C, n)

\* y_new and S
UpdateInnovate(self, loc, x_pred, P_pred, estimates, C, n) ==
  UpdateInvert(self, loc, x_pred, P_pred, Innovation(estimates, C, x_pred),
               InnovationCov(C, P_pred, self.R), C, n)

\* x_new = A.x + B.u and P = A.P.A^T + Q
UpdatePredict(self, loc, A, B, measured_input, estimates, C, n) ==
  UpdateInnovate(self, loc, MatAdd(Dot(A, self.x), Dot(B, measured_input)),
                 PredictP(A, self.P, self.Q), estimates, C, n)

\* the append and pop(0) of the three histories
Pushed(self, new) ==
  [self EXCEPT !.acc_x = AppendPop(@, new[1]),
               !.acc_y = AppendPop(@, new[2]),
               !.acc_z = AppendPop(@, new[3])]

\* the means of the three histories
Means(self) == <<Mean(self.acc_x), Mean(self.acc_y), Mean(self.acc_z)>>

\* the values update() appends to acc_x, acc_y and acc_z
Pushed6dof(accelerometer) == <<accelerometer[1], accelerometer[2], accelerometer[3]>>

A6dof(dt) == << <<Fx(1), -dt, 0, 0>>,
                <<0, Fx(1), 0, 0>>,
                <<0, 0, Fx(1), -dt>>,
                <<0, 0, 0, Fx(1)>> >>

B6dof(dt) == << <<dt, 0>>, <<0, 0>>, <<0, dt>>, <<0, 0>> >>

\* the angles the mean acceleration gives
AccelRoll(acc_mean) ==
  Arctan2(acc_mean[3], Sqrt(FMul(acc_mean[2], acc_mean[2]) + FMul(acc_mean[1], acc_mean[1])))

AccelPitch(acc_mean) ==
  Arctan2(-acc_mean[1], Sqrt(FMul(acc_mean[3], acc_mean[3]) + FMul(acc_mean[2], acc_mean[2])))

\* the angle rates the gyroscope gives
RollDot(gyro, roll_current, pitch_current) ==
  gyro[1] + FMul(FMul(Sin(roll_current), Tan(pitch_current)), gyro[3])
          + FMul(FMul(Cos(roll_current), Tan(pitch_current)), gyro[2])

PitchDot(gyro, roll_current) ==
  FMul(Cos(roll_current), gyro[3]) - FMul(Sin(roll_current), gyro[2])

Estimated6dof(self, acc_mean, gyro, roll_current, pitch_current, dt) ==
  UpdatePredict(self, [acc_mean |-> acc_mean], A6dof(dt), B6dof(dt),
                << <<RollDot(gyro, roll_current, pitch_current)>>,
                   <<PitchDot(gyro, roll_current)>> >>,
                << <<AccelRoll(acc_mean)>>, <<AccelPitch(acc_mean)>> >>,
                C6dof, 4)

Sensed6dof(self, gyroscope, dt) ==
  Estimated6dof(self, Means(self),
                <<Radians(gyroscope[1]), Radians(gyroscope[2]), Radians(gyroscope[3])>>,
                self.x[1][1], self.x[3][1], dt)

\* return np.degrees(self.x[0][0]), np.degrees(self.x[2][0])
Returned6dof(r) ==
  IF r.status # "ok" THEN r
  ELSE [r EXCEPT !.value = <<Degrees(r.self.x[1][1]), Degrees(r.self.x[3][1])>>]

\* update(gyroscope, accelerometer, dt): the fields after the call, how it ended
\* (status), what it returned (value) and its local variables (loc)
Update6dof(self, gyroscope, accelerometer, dt) ==
  Returned6dof(Sensed6dof(Pushed(self, Pushed6dof(accelerometer)), gyroscope, dt))

(***************************************************************************)
(* kalman_filter_velocity.  Its histories are the fields ac_x, ac_y, ac_z  *)
(* and are kept here in acc_x, acc_y, acc_z.                               *)
(***************************************************************************)
\* self.Q_coeff = 0.0001
QV_COEFF == 100

\* self.R_coeff = 0.001
RV_COEFF == 1000

\* __init__: self.Q
InitQVelocity == Times(Eye(2), QV_COEFF)

\* __init__: self.R
InitRVelocity == Times(<< <<Fx(1), 0>>, <<0, Fx(10)>> >>, RV_COEFF)

\* __init__: self.C
CVelocity == << <<Fx(1), 0>>, <<0, Fx(1)>> >>

\* reset(): the fields it assigns
ResetVelocity(self) ==
  [self EXCEPT !.acc_x = <<0, 0>>,
               !.acc_y = <<0, 0>>,
               !.acc_z = <<0, 0>>,
               !.x = Zeros(2, 1),
               !.P = Eye(2),
               !.current_position = 0]

\* the values update() appends to ac_x, ac_y and ac_z
PushedVelocity(accelerometer) == <<accelerometer[1], accelerometer[1], accelerometer[1]>>

\* (position - self.current_position) / dt
SpeedFromPosition(position, current_position, dt) == FDiv(position - current_position, dt)

\* ac_x_mean * np.cos(np.radians(pitch))
AcForward(ac_x_mean, pitch) == FMul(ac_x_mean, Cos(Radians(pitch)))

AVelocity(dt) == << <<Fx(1), dt>>, <<0, Fx(1)>> >>

BVelocity(dt) == << <<-FDivInt(FMul(dt, dt), 2)>>, <<dt>> >>

EstimatedVelocity(self, acc_mean, speed_from_position, pitch, position, dt) ==
  UpdatePredict([self EXCEPT !.current_position = position],
                [acc_mean |-> acc_mean, speed_from_position |-> speed_from_position],
                AVelocity(dt), BVelocity(dt),
                << <<AcForward(acc_mean[1], pitch)>> >>,
                << <<speed_from_position>> >>,
                CVelocity, 2)

\* the division by dt = 0 of two Python numbers raises ZeroDivisionError, after the
\* histories have been pushed
SensedVelocity(self, pitch, position, dt) ==
  IF dt = 0
    THEN [self |-> self, status |-> "ZeroDivisionError", value |-> <<>>,
          loc |-> [acc_mean |-> Means(self)]]
    ELSE EstimatedVelocity(self, Means(self),
                           SpeedFromPosition(position, self.current_position, dt),
                           pitch, position, dt)

\* return self.x[1][0]
ReturnedVelocity(r) ==
  IF r.status # "ok" THEN r ELSE [r EXCEPT !.value = <<r.self.x[2][1]>>]

\* update(accelerometer, pitch, position, dt)
UpdateVelocity(self, accelerometer, pitch, position, dt) ==
  ReturnedVelocity(SensedVelocity(Pushed(self, PushedVelocity(accelerometer)),
                                  pitch, position, dt))

(***************************************************************************)
(* Batch post-processing of kalman_filter_6dof: zero() and smooth().       *)
(***************************************************************************)
\* the first and one-past-last index of the calibration slice arr[100:200]
CALIB_FROM == 100

CALIB_TO == 200

\* arr[lo:hi] of a Python list
Slice(arr, lo, hi) ==
  LET last == IF hi < Len(arr) THEN hi ELSE Len(arr)
  IN IF lo >= last THEN <<>> ELSE SubSeq(arr, lo + 1, last)

\* a float that may be nan
Num(v) == [nan |-> FALSE, v |-> v]

NaN == [nan |-> TRUE, v |-> 0]

\* np.mean: nan on an empty slice
NpMean(s) == IF Len(s) = 0 THEN NaN ELSE Num(Mean(s))

\* x - calib_val
MinusCalib(v, calib_val) == IF calib_val.nan THEN NaN ELSE Num(v - calib_val.v)

\* zero(arr): every entry less the mean of arr[100:200]
Zero(arr) ==
  LET calib_val == NpMean(Slice(arr, CALIB_FROM, CALIB_TO))
  IN Arr([k \in 1..Len(arr) |-> MinusCalib(arr[k], calib_val)])

HasNan(arr) == \E k \in 1..Len(arr) : arr[k].nan

\* the degree k of interpolate.UnivariateSpline
SPLINE_K == 3

NonDecreasing(t) == \A k \in 1..(Len(t) - 1) : t[k] <= t[k + 1]

\* smooth(arr_to_smooth, time_arr, smooth_coeff): the outcomes of fitting
\* interpolate.UnivariateSpline (degree 3) and evaluating it at time_arr.  The
\* fitted values are not computed: the result is the term naming the fit and the
\* points it is evaluated at, one value per entry of time_arr.  A fit to nan data
\* is not checked by the library: it returns nonsense or fails.
Smooth(arr_to_smooth, time_arr, smooth_coeff) ==
  LET fitted == [fit_x |-> time_arr, fit_y |-> arr_to_smooth,
                 s |-> smooth_coeff, at |-> time_arr]
  IN IF Len(time_arr) # Len(arr_to_smooth) \/ Len(time_arr) <= SPLINE_K
          \/ ~NonDecreasing(time_arr)
       THEN {[status |-> "ValueError", value |-> <<>>]}
     ELSE IF HasNan(arr_to_smooth)
       THEN {[status |-> "ok", value |-> fitted],
             [status |-> "FitpackError", value |-> <<>>]}
     ELSE {[status |-> "ok", value |-> fitted]}

(***************************************************************************)
(* The datasets handed to analyze_dataset: arrays of channels.             *)
(***************************************************************************)
Const(n, v) == Arr([k \in 1..n |-> v])

Ramp(n, from, step) == Arr([k \in 1..n |-> from + (k - 1) * step])

\* n samples: the gyroscope at (10, 5, -5) deg/s, the sensor tilted after sample 2
Data6dof(n, step) ==
  << Ramp(n, 0, step), Const(n, Fx(10)), Const(n, Fx(5)), Const(n, Fx(-5)),
     Arr([k \in 1..n |-> IF k > 2 THEN Fx(1) ELSE 0]), Const(n, 0), Const(n, Fx(1)) >>

\* the length of the short datasets, and of the long one
ShortLen == 5

LongLen == 101

Datasets6dof ==
  { Data6dof(0, SCALE),
    Data6dof(SPLINE_K, SCALE),
    Data6dof(ShortLen, SCALE),
    [Data6dof(ShortLen, SCALE) EXCEPT ![2] = Const(ShortLen - 2, Fx(10))],
    [Data6dof(ShortLen, SCALE) EXCEPT ![7] = Const(ShortLen + 1, Fx(1))],
    [Data6dof(ShortLen, SCALE) EXCEPT ![1] = Ramp(ShortLen, Fx(ShortLen), -SCALE)],
    Data6dof(LongLen, SCALE \div 100) }

\* n samples walking 2 units per time step from position 2
DataVelocity(n, step) ==
  << Ramp(n, 0, step), Const(n, Fx(1)), Const(n, Fx(2)), Const(n, Fx(3)),
     Const(n, 0), Ramp(n, Fx(2), Fx(2)) >>

DatasetsVelocity ==
  { DataVelocity(0, SCALE),
    DataVelocity(1, SCALE),
    DataVelocity(ShortLen, SCALE),
    [DataVelocity(ShortLen, SCALE) EXCEPT ![5] = Const(ShortLen - 2, 0)],
    [DataVelocity(ShortLen, SCALE) EXCEPT ![6] = Ramp(ShortLen + 1, Fx(2), Fx(2))],
    [DataVelocity(ShortLen, SCALE) EXCEPT ![1] = <<0, SCALE, SCALE, 2 * SCALE, 3 * SCALE>>],
    [DataVelocity(ShortLen, SCALE) EXCEPT ![1] = Ramp(ShortLen, Fx(ShortLen), -SCALE)] }

(***************************************************************************)
(* The program: one filter object of either class and the calls made on    *)
(* it.  analyze_dataset runs one iteration of its loop per step; no other  *)
(* call is made on the object while it runs.                               *)
(***************************************************************************)
(* HarmonicRatio.  Signals are sequences of integers.                      *)
(***************************************************************************)
\* __init__(dir, freq, rw="w+") with a valid axis
NewHarmonic(dir, freq) ==
  [rw |-> "w+", axis |-> dir, current_period |-> <<>>, hr |-> -1,
   data_refresh_rate |-> freq, last_gait_var |-> -1, saved_output_vars |-> <<>>]

\* list(range(start, stop, stride)) for stride > 0
Range(start, stop, stride) ==
  IF stop <= start THEN <<>>
  ELSE Arr([k \in 1..((stop - start + stride - 1) \div stride) |-> start + (k - 1) * stride])

\* the parameters y, x, f that plot_line(self, y, x, f, title='') requires
HR_PLOT_ARGS == <<"y", "x", "f">>

\* a call of plot_line with the positional arguments args: TypeError when one of
\* y, x, f is missing, else the plot is written to f
HrPlotLine(args) == IF Len(args) < Len(HR_PLOT_ARGS) THEN "TypeError" ELSE "ok"

\* the number of harmonics process_event() sums
HARMONICS == 20

\* process_event(): it plots the spectrum by plot_line(np.abs(fft_output), fft_freqs),
\* then indexes fft_output, of length N // 2 + 1, at 0..19.  The ratio itself is
\* kept as the term naming the window and the axis it is computed from.
ProcessEvent(self) ==
  IF HrPlotLine(<<"np.abs(fft_output)", "fft_freqs">>) # "ok"
    THEN [status |-> "TypeError", value |-> <<>>]
  ELSE IF (Len(self.current_period) \div 2) + 1 < HARMONICS
    THEN [status |-> "IndexError", value |-> <<>>]
  ELSE [status |-> "ok",
        value |-> [harmonic_ratio_of |-> self.current_period, axis |-> self.axis]]

\* the rest of the loop of analyze_dataset, once process_event() has run
RECURSIVE HrLoop(_, _, _, _, _)
HrAppend(self, dataset, window_size, ns, hr_arr, r) ==
  IF r.status # "ok" THEN [self |-> self, status |-> r.status, value |-> <<>>]
  ELSE HrLoop(self, dataset, window_size, Tail(ns), Append(hr_arr, r.value))

HrWindow(self, dataset, window_size, ns, hr_arr) ==
  HrAppend(self, dataset, window_size, ns, hr_arr, ProcessEvent(self))

\* for n in range(window_size, len(dataset), window_delta), over the values ns of n
HrLoop(self, dataset, window_size, ns, hr_arr) ==
  IF ns = <<>> THEN [self |-> self, status |-> "ok", value |-> hr_arr]
  ELSE HrWindow([self EXCEPT !.current_period =
                                Slice(dataset, Head(ns) - window_size, Head(ns))],
                dataset, window_size, ns, hr_arr)

\* np.multiply(list(range(window_size // window_delta, len(hr_arr) + ...)), window_delta)
XArr(hr_arr, window_size, window_delta) ==
  Arr([k \in 1..Len(hr_arr) |-> ((window_size \div window_delta) + k - 1) * window_delta])

\* what analyze_dataset writes when a filename is given
HrWritten(dataset, hr_arr, window_size, window_delta, filename) ==
  IF filename = "" THEN <<>>
  ELSE << [h1 |-> "Harmonic Ratio of Signal Over Time"],
          [window_size |-> window_size], [window_delta |-> window_delta],
          [plot_y |-> dataset, plot_x |-> Range(0, Len(dataset), 1)],
          [plot_y |-> hr_arr, plot_x |-> XArr(hr_arr, window_size, window_delta)] >>

\* a returned list, and a returned int
List(v) == [type |-> "list", v |-> v]

Int0(v) == [type |-> "int", v |-> v]

HrReturn(r, dataset, window_size, window_delta, filename) ==
  IF r.status # "ok"
    THEN [self |-> r.self, status |-> r.status, value |-> <<>>, written |-> <<>>]
    ELSE [self |-> r.self, status |-> "ok", value |-> List(r.value),
          written |-> HrWritten(dataset, r.value, window_size, window_delta, filename)]

\* HarmonicRatio.analyze_dataset(dataset, window_size, window_delta, filename):
\* range() raises ValueError on a zero step
HrAnalyzeDataset(self, dataset, window_size, window_delta, filename) ==
  IF window_delta = 0
    THEN [self |-> self, status |-> "ValueError", value |-> <<>>, written |-> <<>>]
    ELSE HrReturn(HrLoop(self, dataset, window_size,
                         Range(window_size, Len(dataset), window_delta), <<>>),
                  dataset, window_size, window_delta, filename)

(***************************************************************************)
(* RecursionAnalysis.  Signals are sequences of integers; the radius is a  *)
(* non-negative integer, so sqrt(d) <= radius is d <= radius^2.            *)
(***************************************************************************)
\* __init__(lag, dim, rad, ref=100)
NewRecursion(lag, dim, rad, ref) ==
  [time_lag |-> lag, dimensions |-> dim, radius |-> rad, refresh_time |-> ref,
   saved_ra_points |-> <<>>, saved_input_points |-> <<>>,
   max_input_points |-> dim * lag,
   need_indices |-> Arr([k \in 1..dim |-> dim * lag - (k - 1) * lag])]

\* get_timelag_points(dataset): dataset[idx - 1], counted from 0, for each needed idx
GetTimelagPoints(self, dataset) ==
  Arr([k \in 1..Len(self.need_indices) |-> dataset[self.need_indices[k]]])

\* a variant of insert_pt that never removes the oldest stored point
InsertPtNoPop(self, datapt) ==
  IF Len(self.saved_input_points) + 1 > self.max_input_points
    THEN [self EXCEPT
            !.saved_input_points = Append(@, datapt),
            !.saved_ra_points =
               Append(@, GetTimelagPoints(self, Append(self.saved_input_points, datapt)))]
    ELSE [self EXCEPT !.saved_input_points = Append(@, datapt)]

\* insert_pt(datapt): the fields after the call
InsertPt(self, datapt) ==
  IF Len(self.saved_input_points) + 1 > self.max_input_points
    THEN [self EXCEPT
            !.saved_input_points = Tail(Append(@, datapt)),
            !.saved_ra_points =
               Append(@, GetTimelagPoints(self, Tail(Append(self.saved_input_points, datapt))))]
    ELSE [self EXCEPT !.saved_input_points = Append(@, datapt)]

\* the local saved_ra_points of analyze_dataset: one point for each x in
\* range(max_input_points, len(dataset)), from dataset[x - max_input_points:x]
RaPoints(self, dataset) ==
  Arr([k \in 1..(IF Len(dataset) > self.max_input_points
                  THEN Len(dataset) - self.max_input_points ELSE 0) |->
         GetTimelagPoints(self, Slice(dataset, k - 1, k - 1 + self.max_input_points))])

RECURSIVE SquaredDistance(_, _, _)
SquaredDistance(p, q, dim) ==
  IF dim = 0 THEN 0
  ELSE SquaredDistance(p, q, dim - 1) + (p[dim] - q[dim]) * (p[dim] - q[dim])

\* the square array rp of recursion_plot: rp[i][j] = 1 for j >= i within the radius
RecursionPlot(self, ra_points) ==
  Arr([i \in 1..Len(ra_points) |->
    Arr([j \in 1..Len(ra_points) |->
      IF j >= i /\ SquaredDistance(ra_points[i], ra_points[j], self.dimensions)
                     <= self.radius * self.radius
        THEN 1 ELSE 0])])

\* the lengths of the runs of 1 on the diagonal of rp that starts at column
\* x_start (counted from 0), from its cell y (counted from 0) on
RECURSIVE DiagonalLines(_, _, _, _)
DiagonalLines(rp, x_start, y, line_length) ==
  IF y >= Len(rp) - x_start
    THEN (IF line_length > 0 THEN <<line_length>> ELSE <<>>)
  ELSE IF rp[y + 1][x_start + y + 1] = 1
    THEN DiagonalLines(rp, x_start, y + 1, line_length + 1)
  ELSE (IF line_length > 0 THEN <<line_length>> ELSE <<>>)
       \o DiagonalLines(rp, x_start, y + 1, 0)

\* line_analysis(rp): line_lengths, over x_start in range(1, len(rp))
RECURSIVE LineLengths(_, _)
LineLengths(rp, x_start) ==
  IF x_start >= Len(rp) THEN <<>>
  ELSE DiagonalLines(rp, x_start, 0, 0) \o LineLengths(rp, x_start + 1)

RECURSIVE SumOf(_, _)
SumOf(s, k) == IF k = 0 THEN 0 ELSE SumOf(s, k - 1) + s[k]

Max2(a, b) == IF a > b THEN a ELSE b

RECURSIVE MaxOf(_, _)
MaxOf(s, k) == IF k = 1 THEN s[1] ELSE Max2(s[k], MaxOf(s, k - 1))

\* analyze_dataset after line_analysis: max() of an empty list raises ValueError,
\* after the title and the signal plot have been written; else the line lengths
\* go to the file and the call returns 0
RaReturn(self, dataset, line_lengths) ==
  IF line_lengths = <<>>
    THEN [self |-> self, status |-> "ValueError", value |-> <<>>,
          written |-> << [h1 |-> "Recursion Analysis of Dataset"],
                         [plot_y |-> Slice(dataset, self.max_input_points, Len(dataset))] >>]
    ELSE [self |-> self, status |-> "ok", value |-> Int0(0),
          written |-> << [h1 |-> "Recursion Analysis of Dataset"],
                         [plot_y |-> Slice(dataset, self.max_input_points, Len(dataset))],
                         [lag |-> self.time_lag, dim |-> self.dimensions,
                          rad |-> self.radius],
                         [avg_line |-> FDivInt(Fx(SumOf(line_lengths, Len(line_lengths))),
                                               Len(line_lengths)),
                          max_line |-> MaxOf(line_lengths, Len(line_lengths))],
                         [plot |-> "rp"], [plot |-> "over_timeL"] >>]

\* RecursionAnalysis.analyze_dataset(dataset)
RaAnalyzeDataset(self, dataset) ==
  RaReturn(self, dataset, LineLengths(RecursionPlot(self, RaPoints(self, dataset)), 1))

(***************************************************************************)
VARIABLES
  cls,               \* the class of the object
  x, P,              \* self.x, self.P
  Q, R,              \* self.Q, self.R
  Q_coeff,           \* self.Q_coeff: <<c>>, or <<>> while the attribute does not exist
  acc_x, acc_y, acc_z,    \* the rolling acceleration histories
  current_position,  \* self.current_position (kalman_filter_velocity)
  pc,                \* "idle", or "loop" inside analyze_dataset
  dataset,           \* the argument of the last analyze_dataset
  loop_i,            \* the loop variable i of analyze_dataset
  roll_arr, pitch_arr, speed_arr,   \* the output lists analyze_dataset builds
  ret,               \* the last call: its name, how it ended, what it returned
  upd,               \* the last run of update(): arguments, outcome, local variables
  step,              \* what the last step ran
  ncalls,            \* the number of calls made on the object
  analyzer,          \* the fields of a HarmonicRatio or RecursionAnalysis object
  written            \* what the last analyze_dataset wrote to its output file

vars == <<cls, x, P, Q, R, Q_coeff, acc_x, acc_y, acc_z, current_position, pc,
          dataset, loop_i, roll_arr, pitch_arr, speed_arr, ret, upd, step, ncalls,
          analyzer, written>>

\* the number of calls made on the object in one run of the model
MaxCalls == 3

\* the number of calls on a RecursionAnalysis object when they are insert_pt calls
MaxInserts == 6

K6DOF == "kalman_filter_6dof"

KVELOCITY == "kalman_filter_velocity"

KHARMONIC == "HarmonicRatio"

KRECURSION == "RecursionAnalysis"

IsFilter == cls \in {K6DOF, KVELOCITY}

\* the fields of the object that reset() and update() read and write
Self ==
  [x |-> x, P |-> P, Q |-> Q, R |-> R, acc_x |-> acc_x, acc_y |-> acc_y,
   acc_z |-> acc_z, current_position |-> current_position]

Install(s) ==
  /\ x' = s.x
  /\ P' = s.P
  /\ Q' = s.Q
  /\ R' = s.R
  /\ acc_x' = s.acc_x
  /\ acc_y' = s.acc_y
  /\ acc_z' = s.acc_z
  /\ current_position' = s.current_position

Blank == [x |-> <<>>, P |-> <<>>, Q |-> <<>>, R |-> <<>>, acc_x |-> <<>>,
          acc_y |-> <<>>, acc_z |-> <<>>, current_position |-> 0]

\* kalman_filter_6dof.__init__
New6dof == [Reset6dof(Blank) EXCEPT !.Q = InitQ6dof, !.R = InitR6dof]

\* kalman_filter_velocity.__init__
NewVelocity == [ResetVelocity(Blank) EXCEPT !.Q = InitQVelocity, !.R = InitRVelocity]

\* the filter fields of a new object: none of them on an analyzer
New(c) == IF c = K6DOF THEN New6dof ELSE IF c = KVELOCITY THEN NewVelocity ELSE Blank

\* reset() of the object's class
ResetOf(c, self) == IF c = K6DOF THEN Reset6dof(self) ELSE ResetVelocity(self)

NoUpdate == [args |-> <<>>, status |-> "none", value |-> <<>>, loc |-> <<>>]

\* the objects the model constructs
Classes == {K6DOF, KVELOCITY, KHARMONIC, KRECURSION}

Analyzers(c) ==
  IF c = KHARMONIC THEN {NewHarmonic(dir, 100) : dir \in {"x", "z"}}
  ELSE IF c = KRECURSION THEN {NewRecursion(lag, 2, 1, 100) : lag \in {1, 2}}
  ELSE {<<>>}

Init ==
  /\ cls \in Classes
  /\ x = New(cls).x
  /\ P = New(cls).P
  /\ Q = New(cls).Q
  /\ R = New(cls).R
  /\ Q_coeff = IF cls = KVELOCITY THEN <<QV_COEFF>> ELSE <<>>
  /\ acc_x = New(cls).acc_x
  /\ acc_y = New(cls).acc_y
  /\ acc_z = New(cls).acc_z
  /\ current_position = New(cls).current_position
  /\ pc = "idle"
  /\ dataset = <<>>
  /\ loop_i = 0
  /\ roll_arr = <<>>
  /\ pitch_arr = <<>>
  /\ speed_arr = <<>>
  /\ ret = [op |-> "__init__", status |-> "ok", value |-> <<>>]
  /\ upd = NoUpdate
  /\ step = "__init__"
  /\ ncalls = 0
  /\ analyzer \in Analyzers(cls)
  /\ written = <<>>

\* the inputs of the calls
Inputs6dof ==
  { << <<0, 0, 0>>, <<0, 0, Fx(1)>> >>,
    << <<Fx(10), Fx(5), Fx(-5)>>, <<Fx(1), Fx(2), Fx(3)>> >> }

InputsVelocity ==
  { << <<Fx(1), Fx(2), Fx(3)>>, 0, Fx(1)>>,
    << <<Fx(4), Fx(5), Fx(6)>>, Fx(180), Fx(3)>> }

Dts == {-(SCALE \div 2), 0, SCALE}

CanCall == pc = "idle" /\ ncalls < MaxCalls

NotInLoop ==
  UNCHANGED <<cls, pc, dataset, loop_i, roll_arr, pitch_arr, speed_arr, analyzer, written>>

\* a call of update() from outside
Called(r, args) ==
  /\ Install(r.self)
  /\ ret' = [op |-> "update", status |-> r.status, value |-> r.value]
  /\ upd' = [args |-> args, status |-> r.status, value |-> r.value, loc |-> r.loc]
  /\ step' = "update"
  /\ ncalls' = ncalls + 1
  /\ UNCHANGED Q_coeff
  /\ NotInLoop

\* kalman_filter_6dof.update(gyroscope, accelerometer, dt)
Update6dofCall(gyroscope, accelerometer, dt) ==
  /\ CanCall
  /\ cls = K6DOF
  /\ Called(Update6dof(Self, gyroscope, accelerometer, dt),
            [gyroscope |-> gyroscope, accelerometer |-> accelerometer, dt |-> dt])

\* kalman_filter_velocity.update(accelerometer, pitch, position, dt)
UpdateVelocityCall(accelerometer, pitch, position, dt) ==
  /\ CanCall
  /\ cls = KVELOCITY
  /\ Called(UpdateVelocity(Self, accelerometer, pitch, position, dt),
            [accelerometer |-> accelerometer, pitch |-> pitch,
             position |-> position, dt |-> dt])

\* reset()
ResetCall ==
  /\ CanCall
  /\ IsFilter
  /\ Install(ResetOf(cls, Self))
  /\ ret' = [op |-> "reset", status |-> "ok", value |-> <<>>]
  /\ step' = "reset"
  /\ ncalls' = ncalls + 1
  /\ UNCHANGED <<Q_coeff, upd>>
  /\ NotInLoop

\* the coefficients a caller puts in a new Q or R
NoiseCoeffs == {0, SCALE \div 100}

Dim == IF cls = K6DOF THEN 4 ELSE 2

IsZero(M) == \A r \in 1..Rows(M) : \A c \in 1..Cols(M) : M[r][c] = 0

\* self.Q = <identity> * c.  A zero R is explored with a zero Q only: with Q > 0
\* its gain 1/Q is outside the range of the fixed-point numbers.
SetQ(c) ==
  /\ CanCall
  /\ IsFilter
  /\ c = 0 \/ ~IsZero(R)
  /\ Q' = Times(Eye(Dim), c)
  /\ ret' = [op |-> "set Q", status |-> "ok", value |-> <<>>]
  /\ step' = "set Q"
  /\ ncalls' = ncalls + 1
  /\ UNCHANGED <<x, P, R, Q_coeff, acc_x, acc_y, acc_z, current_position, upd>>
  /\ NotInLoop

\* self.R = [[1, 0], [0, 10]] * c.  A zero R is given to a filter that has a zero Q
\* and has not run since its construction or reset: its covariances are then
\* exact fixed-point numbers.
SetR(c) ==
  /\ CanCall
  /\ IsFilter
  /\ c # 0 \/ (IsZero(Q) /\ P = Eye(Dim))
  /\ R' = Times(<< <<Fx(1), 0>>, <<0, Fx(10)>> >>, c)
  /\ ret' = [op |-> "set R", status |-> "ok", value |-> <<>>]
  /\ step' = "set R"
  /\ ncalls' = ncalls + 1
  /\ UNCHANGED <<x, P, Q, Q_coeff, acc_x, acc_y, acc_z, current_position, upd>>
  /\ NotInLoop

\* <filter>.Q_coeff = c, the assignment of the usage notes: it binds the
\* attribute Q_coeff and nothing else
SetQCoeff(c) ==
  /\ CanCall
  /\ IsFilter
  /\ Q_coeff' = <<c>>
  /\ ret' = [op |-> "set Q_coeff", status |-> "ok", value |-> <<>>]
  /\ step' = "set Q_coeff"
  /\ ncalls' = ncalls + 1
  /\ UNCHANGED <<x, P, Q, R, acc_x, acc_y, acc_z, current_position, upd>>
  /\ NotInLoop

DatasetsOf(c) == IF c = K6DOF THEN Datasets6dof ELSE DatasetsVelocity

\* whether channel[i] of some channel read in iteration i is out of range
OutOfRange(d, i) == \E c \in 2..Len(d) : Len(d[c]) < i + 1

\* the arguments of the update() of iteration i
LoopArgs(c, d, i) ==
  IF c = K6DOF
    THEN [gyroscope |-> <<d[2][i + 1], d[3][i + 1], d[4][i + 1]>>,
          accelerometer |-> <<d[5][i + 1], d[6][i + 1], d[7][i + 1]>>,
          dt |-> d[1][i + 1] - d[1][i]]
    ELSE [accelerometer |-> <<d[2][i + 1], d[3][i + 1], d[4][i + 1]>>,
          pitch |-> d[5][i + 1], position |-> d[6][i + 1],
          dt |-> d[1][i + 1] - d[1][i]]

UpdateWith(c, self, args) ==
  [args |-> args,
   r |-> IF c = K6DOF
           THEN Update6dof(self, args.gyroscope, args.accelerometer, args.dt)
           ELSE UpdateVelocity(self, args.accelerometer, args.pitch, args.position, args.dt)]

\* the update() of iteration i
LoopUpdate(c, self, d, i) == UpdateWith(c, self, LoopArgs(c, d, i))

\* the output lists before the loop, and after the append of an iteration
FirstOut(c) ==
  IF c = K6DOF THEN [roll_arr |-> <<0>>, pitch_arr |-> <<0>>, speed_arr |-> <<>>]
  ELSE [roll_arr |-> <<>>, pitch_arr |-> <<>>, speed_arr |-> <<0>>]

Appended(c, out, value) ==
  IF c = K6DOF
    THEN [out EXCEPT !.roll_arr = Append(@, value[1]), !.pitch_arr = Append(@, value[2])]
    ELSE [out EXCEPT !.speed_arr = Append(@, value[1])]

\* the two smoothing outcomes together: the first error, or both fits
BothFits(sr, sp) ==
  IF sr.status # "ok" THEN [status |-> sr.status, value |-> <<>>]
  ELSE IF sp.status # "ok" THEN [status |-> sp.status, value |-> <<>>]
  ELSE [status |-> "ok", value |-> <<sr.value, sp.value>>]

\* how analyze_dataset can end after its loop.  kalman_filter_6dof: zero() and
\* smooth(..., 1) of both lists; kalman_filter_velocity: return speed_arr
Results(c, d, out) ==
  IF c = K6DOF
    THEN {BothFits(sr, sp) : sr \in Smooth(Zero(out.roll_arr), d[1], SCALE),
                             sp \in Smooth(Zero(out.pitch_arr), d[1], SCALE)}
    ELSE {[status |-> "ok", value |-> out.speed_arr]}

\* analyze_dataset(dataset), up to its loop: reset() and the one-entry output lists.
\* The long dataset, sampled at 100 Hz, is run with a non-zero R only (the gain
\* of a zero-R filter at dt = 0.01 is outside the range of the fixed-point numbers).
\* ret remembers whether the call before this one was reset().
AnalyzeStart(d) ==
  /\ CanCall
  /\ IsFilter
  /\ Len(d[1]) <= ShortLen \/ ~IsZero(R)
  /\ Install(ResetOf(cls, Self))
  /\ dataset' = d
  /\ loop_i' = 1
  /\ roll_arr' = FirstOut(cls).roll_arr
  /\ pitch_arr' = FirstOut(cls).pitch_arr
  /\ speed_arr' = FirstOut(cls).speed_arr
  /\ pc' = "loop"
  /\ ret' = [op |-> "analyze_dataset", status |-> "running", value |-> <<>>,
             after_reset |-> (step = "reset")]
  /\ upd' = NoUpdate
  /\ step' = "analyze_dataset"
  /\ ncalls' = ncalls + 1
  /\ UNCHANGED <<cls, Q_coeff, analyzer, written>>

\* analyze_dataset leaves by an exception or a return
Leave(status, value) ==
  /\ pc' = "idle"
  /\ ret' = [ret EXCEPT !.status = status, !.value = value]
  /\ UNCHANGED <<cls, Q_coeff, dataset, ncalls, analyzer, written>>

\* one iteration of "for i in range(1, len(time_arr))"
AnalyzeStep ==
  /\ pc = "loop"
  /\ loop_i < Len(dataset[1])
  /\ IF OutOfRange(dataset, loop_i)
       THEN /\ Leave("IndexError", <<>>)
            /\ step' = "raise"
            /\ UNCHANGED <<x, P, Q, R, acc_x, acc_y, acc_z, current_position, upd,
                           loop_i, roll_arr, pitch_arr, speed_arr>>
       ELSE \E u \in {LoopUpdate(cls, Self, dataset, loop_i)} :
               /\ Install(u.r.self)
               /\ upd' = [args |-> u.args, status |-> u.r.status,
                          value |-> u.r.value, loc |-> u.r.loc]
               /\ step' = "update"
               /\ IF u.r.status # "ok"
                    THEN /\ Leave(u.r.status, <<>>)
                         /\ UNCHANGED <<loop_i, roll_arr, pitch_arr, speed_arr>>
                    ELSE \E out \in {Appended(cls, [roll_arr |-> roll_arr,
                                                    pitch_arr |-> pitch_arr,
                                                    speed_arr |-> speed_arr], u.r.value)} :
                         /\ loop_i' = loop_i + 1
                         /\ roll_arr' = out.roll_arr
                         /\ pitch_arr' = out.pitch_arr
                         /\ speed_arr' = out.speed_arr
                         /\ UNCHANGED <<cls, Q_coeff, pc, dataset, ret, ncalls, analyzer, written>>

\* analyze_dataset after its loop
AnalyzeFinish ==
  /\ pc = "loop"
  /\ loop_i >= Len(dataset[1])
  /\ \E r \in Results(cls, dataset, [roll_arr |-> roll_arr, pitch_arr |-> pitch_arr,
                                     speed_arr |-> speed_arr]) :
       Leave(r.status, r.value)
  /\ step' = "return"
  /\ UNCHANGED <<x, P, Q, R, acc_x, acc_y, acc_z, current_position, upd,
                 loop_i, roll_arr, pitch_arr, speed_arr>>

\* analyze_dataset(d) as one fold.  A run in its loop is the fields of the object
\* and the output lists; an iteration ends the run with an exception or carries
\* it on, and the iterations lo .. hi - 1 are folded half by half.
Running(self, out) == [status |-> "running", self |-> self, out |-> out]

RunStep(c, d, i, st) ==
  IF st.status # "running" THEN {st}
  ELSE IF OutOfRange(d, i) THEN {[st EXCEPT !.status = "IndexError"]}
  ELSE {IF u.r.status # "ok"
          THEN [st EXCEPT !.status = u.r.status]
          ELSE [st EXCEPT !.self = u.r.self, !.out = Appended(c, st.out, u.r.value)] :
        u \in {LoopUpdate(c, st.self, d, i)}}

RECURSIVE RunRange(_, _, _, _, _)
RunRange(c, d, lo, hi, st) ==
  IF hi <= lo THEN {st}
  ELSE IF hi = lo + 1 THEN RunStep(c, d, lo, st)
  ELSE UNION {RunRange(c, d, (lo + hi) \div 2, hi, s) :
              s \in RunRange(c, d, lo, (lo + hi) \div 2, st)}

RunEnd(c, d, st) ==
  IF st.status # "running" THEN {[status |-> st.status, value |-> <<>>]}
  ELSE Results(c, d, st.out)

\* analyze_dataset(d) on a freshly constructed object given the matrices Qm and Rm
FreshRun(c, Qm, Rm, d) ==
  UNION {RunEnd(c, d, st) :
         st \in RunRange(c, d, 1, Len(d[1]),
                         Running(ResetOf(c, [New(c) EXCEPT !.Q = Qm, !.R = Rm]), FirstOut(c)))}

\* the signals handed to the analyzers, and the windows of HarmonicRatio
Signal(n) == Arr([k \in 1..n |-> (k * k) % 7])

HrSignals == {Signal(3), Signal(6), Signal(45)}

WindowSizes == {4, 40}

WindowDeltas == {0, 2}

Filenames == {"", "hr.html"}

RaSignals == {<<3, 3>>, <<1, 2, 1, 2, 1, 2, 1>>, <<1, 5, 9, 2, 7, 4>>}

DataPoints == {1, 2}

NoFilter ==
  UNCHANGED <<cls, x, P, Q, R, Q_coeff, acc_x, acc_y, acc_z, current_position, pc,
              loop_i, roll_arr, pitch_arr, speed_arr, upd>>

\* HarmonicRatio.analyze_dataset(dataset, window_size, window_delta, filename)
HrAnalyzeCall(d, window_size, window_delta, filename) ==
  /\ CanCall
  /\ cls = KHARMONIC
  /\ \E r \in {HrAnalyzeDataset(analyzer, d, window_size, window_delta, filename)} :
       /\ analyzer' = r.self
       /\ written' = r.written
       /\ ret' = [op |-> "analyze_dataset", status |-> r.status, value |-> r.value,
                  args |-> [window_size |-> window_size, window_delta |-> window_delta,
                            filename |-> filename]]
  /\ dataset' = d
  /\ step' = "analyze_dataset"
  /\ ncalls' = ncalls + 1
  /\ NoFilter

\* RecursionAnalysis.analyze_dataset(dataset)
RaAnalyzeCall(d) ==
  /\ CanCall
  /\ cls = KRECURSION
  /\ \E r \in {RaAnalyzeDataset(analyzer, d)} :
       /\ analyzer' = r.self
       /\ written' = r.written
       /\ ret' = [op |-> "analyze_dataset", status |-> r.status, value |-> r.value]
  /\ dataset' = d
  /\ step' = "analyze_dataset"
  /\ ncalls' = ncalls + 1
  /\ NoFilter

\* RecursionAnalysis.insert_pt(datapt): returns 0
InsertPtCall(datapt) ==
  /\ pc = "idle"
  /\ ncalls < MaxInserts
  /\ cls = KRECURSION
  /\ analyzer' = InsertPt(analyzer, datapt)
  /\ ret' = [op |-> "insert_pt", status |-> "ok", value |-> Int0(0),
             args |-> [datapt |-> datapt]]
  /\ step' = "insert_pt"
  /\ ncalls' = ncalls + 1
  /\ UNCHANGED <<dataset, written>>
  /\ NoFilter

Next ==
  \/ \E in \in Inputs6dof : \E dt \in Dts : Update6dofCall(in[1], in[2], dt)
  \/ \E in \in InputsVelocity : \E dt \in Dts : UpdateVelocityCall(in[1], in[2], in[3], dt)
  \/ ResetCall
  \/ \E c \in NoiseCoeffs : SetQ(c)
  \/ \E c \in NoiseCoeffs : SetR(c)
  \/ SetQCoeff(SCALE \div 100)
  \/ \E d \in DatasetsOf(cls) : AnalyzeStart(d)
  \/ AnalyzeStep
  \/ AnalyzeFinish
  \/ \E d \in HrSignals : \E ws \in WindowSizes : \E wd \in WindowDeltas :
       \E filename \in Filenames : HrAnalyzeCall(d, ws, wd, filename)
  \/ \E d \in RaSignals : RaAnalyzeCall(d)
  \/ \E datapt \in DataPoints : InsertPtCall(datapt)

Spec == Init /\ [][Next]_vars

(***************************************************************************)
(* The statements checked about the filters.                               *)
(***************************************************************************)
\* a dataset whose channels all have the length of the time channel, sampled at
\* increasing times
SameLengths(d) == \A c \in 1..Len(d) : Len(d[c]) = Len(d[1])

Increasing(t) == \A k \in 1..(Len(t) - 1) : t[k] < t[k + 1]

WellFormed(d) == SameLengths(d) /\ Increasing(d[1])

\* a filter's analyze_dataset has ended
Analyzed == IsFilter /\ pc = "idle" /\ ret.op = "analyze_dataset"

\* the lengths of the sequences a filter's analyze_dataset returned
ReturnedLengths ==
  IF cls = K6DOF THEN {Len(ret.value[1].at), Len(ret.value[2].at)} ELSE {Len(ret.value)}

\* C1: for every dataset, the empty one included, analyze_dataset of either filter
\* returns sequences (roll and pitch, or speed) with one entry per input sample:
\* their length is the length of the time channel.
C1_LengthEqualsSamples ==
  (Analyzed /\ WellFormed(dataset)) =>
    (ret.status = "ok" /\ ReturnedLengths = {Len(dataset[1])})

\* what update() may change on the object
InstanceState == <<x, P, acc_x, acc_y, acc_z, current_position>>

\* the step just taken ran update()
Updated == step' = "update"

\* C2: an update() with dt = 0 or dt < 0 ends in an InvalidInput error and leaves
\* x, P, the three histories and the previous position as they were before the call.
C2_NonPositiveDtRejected ==
  [][(Updated /\ upd'.args.dt <= 0) =>
       (upd'.status = "InvalidInput" /\ UNCHANGED InstanceState)]_vars

\* the determinant of a 2 x 2 matrix is zero, by exact products
DetZero(S) == ExactMul(S[1][1], S[2][2]) = ExactMul(S[1][2], S[2][1])

\* the update() just run computed S
ComputedS(u) == u.status \in {"ok", "LinAlgError"}

\* C3: an update() whose innovation covariance S is singular ends in an error: it
\* returns no angle and no speed, the error is the outcome of the call that ran
\* it, and x is not corrected with a substituted gain (P stays the predicted P).
C3_SingularSRaises ==
  [][(Updated /\ ComputedS(upd') /\ DetZero(upd'.loc.S)) =>
       /\ upd'.status = "LinAlgError"
       /\ upd'.value = <<>>
       /\ ret'.status = "LinAlgError"
       /\ ret'.value = <<>>
       /\ pc' = "idle"
       /\ x' = x
       /\ P' = upd'.loc.P_pred]_vars

\* a singular S ended a run of analyze_dataset of the orientation filter
C3_Witness ==
  /\ step = "update"
  /\ upd.status = "LinAlgError"
  /\ DetZero(upd.loc.S)
  /\ cls = K6DOF
  /\ ret.op = "analyze_dataset"

\* a list as an array of floats, none of them nan
Floats(arr) == Arr([k \in 1..Len(arr) |-> Num(arr[k])])

\* the sequences returned are fitted to the lists as update() produced them
OffsetSkipped ==
  ret.value[1].fit_y = Floats(roll_arr) /\ ret.value[2].fit_y = Floats(pitch_arr)

\* C4: analyze_dataset of the orientation filter on fewer than 200 samples either
\* ends in InvalidInput and returns nothing, or skips the offset step; it returns
\* nothing computed from an empty or truncated calibration window.
C4_ShortDatasetHandled ==
  (Analyzed /\ cls = K6DOF /\ WellFormed(dataset) /\ Len(dataset[1]) < CALIB_TO) =>
    \/ ret.status = "InvalidInput" /\ ret.value = <<>>
    \/ ret.status = "ok" /\ OffsetSkipped

\* C5: analyze_dataset on channels of different lengths ends in InvalidInput at
\* once: no update() has run and nothing is returned.
C5_MismatchedChannelsRejected ==
  (Analyzed /\ ~SameLengths(dataset)) =>
    (ret.status = "InvalidInput" /\ ret.value = <<>> /\ upd = NoUpdate)

\* the three histories, and the value update() appends to the history of an axis
History(k) == <<acc_x, acc_y, acc_z>>[k]

Reading(u, k) ==
  IF cls = K6DOF THEN u.args.accelerometer[k] ELSE u.args.accelerometer[1]

\* m is the mean of the entries of h, to the last digit
IsMeanOf(m, h, n) == SumOf(h, n) - n <= n * m /\ n * m <= SumOf(h, n) + n

ResetState ==
  /\ x = Zeros(Dim, 1)
  /\ P = Eye(Dim)
  /\ \A k \in 1..3 : History(k) = <<0, 0>>
  /\ current_position = 0

C7_ResetReproducesFreshRun ==
  /\ (IsFilter /\ step = "reset") => ResetState
  /\ Analyzed => [status |-> ret.status, value |-> ret.value] \in FreshRun(cls, Q, R, dataset)

\* a dataset was run to its end right after a reset() of a filter that had been used
C7_Witness ==
  /\ Analyzed
  /\ ret.after_reset
  /\ ret.status = "ok"
  /\ ncalls = MaxCalls
  /\ Len(dataset[1]) >= ShortLen

\* the tolerance of the symmetry of P, in units of the last place
Tol == 1

\* the filter has the Q and R of its construction
DefaultNoise == IsFilter /\ Q = New(cls).Q /\ R = New(cls).R

\* M[i][j] and M[j][i] differ by t units at most
Symmetric(M, t) ==
  \A i \in 1..Rows(M) : \A j \in 1..Rows(M) : Abs(M[i][j] - M[j][i]) <= t

\* the exact products p >= q
Geq(p, q) == p[1] > q[1] \/ (p[1] = q[1] /\ p[2] >= q[2])

\* The positive semi-definiteness of P: its diagonal is not negative, the
\* determinant of each 2 x 2 diagonal block is not negative and, in the 4 x 4
\* matrix of kalman_filter_6dof, there is nothing outside the two blocks.
PositiveSemiDefinite(M) ==
  /\ \A i \in 1..Rows(M) : M[i][i] >= 0
  /\ \A i \in {1} \cup (IF Rows(M) = 4 THEN {3} ELSE {}) :
        Geq(ExactMul(M[i][i], M[i + 1][i + 1]), ExactMul(M[i][i + 1], M[i + 1][i]))
  /\ Rows(M) = 4 => \A i \in 1..2 : \A j \in 3..4 : M[i][j] = 0 /\ M[j][i] = 0

\* A successful update() of a filter with the default Q and R that was reached
\* from reset() by updates with dt > 0 only: an iteration of analyze_dataset over
\* increasing times, or the first call on a new filter.
UpdatedFromReset ==
  /\ DefaultNoise
  /\ step = "update"
  /\ upd.status = "ok"
  /\ \/ ret.op = "analyze_dataset" /\ Increasing(dataset[1])
     \/ ret.op = "update" /\ ncalls = 1 /\ upd.args.dt > 0

\* C8 as stated: after every successful update() from the reset configuration,
\* with the default Q and R and dt > 0, P is symmetric and positive semi-definite.
C8_SymmetricPsd == UpdatedFromReset => (Symmetric(P, 0) /\ PositiveSemiDefinite(P))

\* C8, amended: with the default Q and R, P is positive semi-definite and symmetric
\* within Tol units of the last place after every call, whatever its dt was and
\* however it ended.  (I - K.C).P is rounded entry by entry, and P[1][2] and
\* P[2][1] are rounded from different sums.
C8_SymmetricWithinTol == DefaultNoise => (Symmetric(P, Tol) /\ PositiveSemiDefinite(P))

\* the third update() or a later one of a run of analyze_dataset left a P that is
\* symmetric within the tolerance only
C8_Witness ==
  /\ UpdatedFromReset
  /\ pc = "loop"
  /\ loop_i > 3
  /\ ~Symmetric(P, 0)

\* C9: once Q_coeff has been assigned the value c, every update() predicts the
\* covariance with the process-noise matrix c.I.
C9_QCoeffSetsProcessNoise ==
  (IsFilter /\ Q_coeff = <<SCALE \div 100>> /\ step = "update" /\ ComputedS(upd)) =>
     upd.loc.Qused = Times(Eye(Dim), Q_coeff[1])

\* the signal given to an analyzer holds at least one analysis window
HoldsWindow ==
  IF cls = KHARMONIC
    THEN ret.args.window_delta > 0 /\ Len(dataset) > ret.args.window_size
    ELSE Len(dataset) > analyzer.max_input_points

\* C10: analyze_dataset of HarmonicRatio and of RecursionAnalysis, given a signal
\* that holds at least one window, returns a sequence and raises nothing;
\* HarmonicRatio returns one ratio for each window, with and without a filename.
C10_AnalyzersReturnSequence ==
  (cls \in {KHARMONIC, KRECURSION} /\ step = "analyze_dataset" /\ HoldsWindow) =>
     /\ ret.status = "ok"
     /\ ret.value.type = "list"
     /\ cls = KHARMONIC =>
          Len(ret.value.v) =
            Len(Range(ret.args.window_size, Len(dataset), ret.args.window_delta))

\* C11: in kalman_filter_velocity every axis keeps its own history: after an
\* update() the newest entry of the x, y and z history is accelerometer[0],
\* accelerometer[1] and accelerometer[2], and each mean is the mean of that history.
C11_OwnHistoryPerAxis ==
  [][(cls = KVELOCITY /\ Updated) =>
       \A k \in 1..3 :
         /\ History(k)'[Len(History(k)')] = upd'.args.accelerometer[k]
         /\ IsMeanOf(upd'.loc.acc_mean[k], History(k)', Len(History(k)'))]_vars

\* C12: in a run of analyze_dataset of kalman_filter_velocity the measured speed
\* of iteration i, the first one included, is
\* (position[i] - position[i - 1]) / (time[i] - time[i - 1]), and the previous
\* position after the update is position[i].
C12_SpeedFromConsecutivePositions ==
  [][(cls = KVELOCITY /\ pc = "loop" /\ Updated /\ ComputedS(upd')) =>
       /\ upd'.loc.speed_from_position =
            FDiv(dataset[6][loop_i + 1] - dataset[6][loop_i],
                 dataset[1][loop_i + 1] - dataset[1][loop_i])
       /\ current_position' = dataset[6][loop_i + 1]]_vars

\* C13: in every update() of kalman_filter_velocity the measurement is the pair
\* (predicted position-error component, measured speed): the first component of
\* the innovation is 0 and the second is the measured speed minus the predicted
\* speed.
C13_MeasurementPairsOwnState ==
  (cls = KVELOCITY /\ step = "update" /\ ComputedS(upd)) =>
     /\ upd.loc.y_new[1][1] = 0
     /\ upd.loc.y_new[2][1] = upd.loc.speed_from_position - upd.loc.x_pred[2][1]

\* the last n entries of the sequence s
LastOf(s, n) == SubSeq(s, Len(s) - n + 1, Len(s))

\* C14: saved_input_points never holds more than max_input_points entries and
\* holds the most recent points in arrival order; an insert_pt into a full buffer
\* appends one point of dim values to saved_ra_points, each read at an index
\* inside the buffer, and an insert_pt into a buffer not yet full appends none.
C14_BufferBounded ==
  [][(cls = KRECURSION /\ step' = "insert_pt") =>
       LET max == analyzer.max_input_points
           old == analyzer.saved_input_points
           buf == analyzer'.saved_input_points
           pts == analyzer'.saved_ra_points
       IN /\ Len(old) <= max
          /\ Len(buf) = (IF Len(old) < max THEN Len(old) + 1 ELSE max)
          /\ buf = LastOf(Append(old, ret'.args.datapt), Len(buf))
          /\ IF Len(old) = max
               THEN /\ Len(pts) = Len(analyzer.saved_ra_points) + 1
                    /\ SubSeq(pts, 1, Len(pts) - 1) = analyzer.saved_ra_points
                    /\ Len(pts[Len(pts)]) = analyzer.dimensions
                    /\ \A k \in 1..analyzer.dimensions :
                          /\ analyzer.need_indices[k] \in 1..Len(buf)
                          /\ pts[Len(pts)][k] = buf[analyzer.need_indices[k]]
               ELSE pts = analyzer.saved_ra_points]_vars

\* insert_pt has twice pushed a point into the full buffer of an analyzer with
\* lag 2, and the buffer holds different points
C14_Witness ==
  /\ cls = KRECURSION
  /\ step = "insert_pt"
  /\ analyzer.time_lag = 2
  /\ Len(analyzer.saved_input_points) = analyzer.max_input_points
  /\ Len(analyzer.saved_ra_points) = 2
  /\ analyzer.saved_input_points[1] # analyzer.saved_input_points[2]

=============================================================================
